---- MODULE Spec2Model ----
(***************************************************************************)
(* Model of src/py/arch_installer.py: the ArchInstaller wizard.            *)
(*                                                                         *)
(* The Python call stack is the variable `stack`: one frame per active     *)
(* method call, the last element being the running one.  Every action is   *)
(* the code a method runs from one blocking call to the dialog (or to the  *)
(* command executor) to the next.  The dialog wrapper (base.BaseDialog),   *)
(* the disk enumerator (blkinfo) and the size library (humanfriendly) are  *)
(* not part of the file; their answers are inputs drawn from small sets.   *)
(*                                                                         *)
(* Byte counts are kept in units of 1 kB (1000 bytes): Python integers are *)
(* unbounded, the sizes the wizard handles (250 MB .. 500 GB) are          *)
(* multiples of 1 kB, and the unit keeps them inside TLC's integer range.  *)
(***************************************************************************)
EXTENDS Integers, Sequences, FiniteSets, TLC

\* ------------------------------------------------------------- bounds ---
\* Largest number of confirm_selection rejections pending at one time,
\* i.e. the depth of nested re-entries of a step.
MaxRetries == 2

\* --------------------------------------------------- values and inputs ---
None == "<None>"                 \* Python None / attribute not set
PyTrue == "True"                 \* Python bools as they are formatted by %s
PyFalse == "False"

Names == {"", "vlad"}            \* answers typed into the input box
Secrets == {"", "abc", "xyz"}    \* contents of one password field
Shells == {"Bash", "Zsh"}
Bootloaders == {"Systemd-boot", "Grub2"}
Schemes == {"Single root partition", "Discrete partitions"}
LocalZone == "UTC"               \* str(get_localzone())
CommonTimezones == {"Europe/Paris"}   \* the zones of the timezone menu

ErrNone == ""
ErrEmpty == "ERROR: Password fields cant be empty."
ErrMismatch == "ERROR: Passwords do not match."

\* Units of humanfriendly (decimal convention), expressed in kB.
Divider(unit) ==
  CASE unit = "kb" -> 1
    [] unit = "mb" -> 1000
    [] unit = "gb" -> 1000 * 1000
    [] unit = "tb" -> 1000 * 1000 * 1000

\* A size text is <whole>.<cents> <unit>; unit "" is a bare count.
SizeText(whole, cents, unit) == [whole |-> whole, cents |-> cents, unit |-> unit]

\* humanfriendly.parse_size: number times the divider of the unit, truncated.
parse_size(t) ==
  IF t.unit = "" THEN t.whole
  ELSE LET d == Divider(t.unit)
       IN t.whole * d + (IF d >= 100 THEN t.cents * (d \div 100)
                                     ELSE (t.cents * d) \div 100)

\* humanfriendly.format_size: the largest unit not above the value, the
\* number rounded to two decimals.
format_size(n) ==
  LET unit == IF n >= Divider("tb") THEN "tb"
              ELSE IF n >= Divider("gb") THEN "gb"
              ELSE IF n >= Divider("mb") THEN "mb" ELSE "kb"
      d == Divider(unit)
      q == n \div d
      r == n % d
      c == IF d >= 1000 THEN (r + d \div 200) \div (d \div 100) ELSE 0
  IN SizeText(q + c \div 100, c % 100, unit)

\* class StorageInput: raw is parsed from the text, humanized is the text.
StorageInput(val) == [raw |-> parse_size(val), humanized |-> val]

\* The disks blkinfo reports: name and size (a bare count, in general not
\* a whole number of hundredths of a unit).
Disks == { [name |-> "sda", size |-> SizeText(500 * 1000 * 1000, 0, "")],
           [name |-> "sdb", size |-> SizeText(39 * 1000 * 1000 + 123, 0, "")] }
DiskNames == {d.name : d \in Disks}

\* blkinfo.BlkDiskInfo().get_disks({"name": name}): the disks of that name.
\* For a name no disk has, the library either returns no disk or ignores
\* the filter; both outcomes are kept (the result is a set of candidates
\* for element [0], empty when the list is empty).
get_disks(name) ==
  IF name \in DiskNames THEN { {d \in Disks : d.name = name} }
  ELSE { {}, Disks }

\* ------------------------------------------------------- method names ---
\* run() with the drive selection called before the shell selection.
RunStepsDriveFirst ==
  << "welcome_user", "set_user_name", "set_user_password",
     "set_root_password", "set_drive", "set_user_shell", "set_bootloader",
     "set_hostname", "set_timezone", "set_partition_scheme",
     "set_partition_sizes", "start_ntp_sync" >>

\* The calls of run(), in the order of its body.
RunSteps == << "welcome_user", "set_user_name", "set_user_password",
               "set_root_password", "set_user_shell", "set_drive",
               "set_bootloader", "set_hostname", "set_timezone",
               "set_partition_scheme", "set_partition_sizes",
               "start_ntp_sync" >>

Methods == { RunSteps[i] : i \in 1..Len(RunSteps) } \cup
           { "run", "input_form", "password_form", "confirm_selection",
             "set_swap_creation", "run_reflector", "run_sh_cmd" }

\* The methods a driver of the class calls on an instance.
Entries == { "run", "set_swap_creation", "run_reflector", "start_ntp_sync" }

\* str.split("_") of a method name.
split(name) ==
  CASE name = "welcome_user" -> << "welcome", "user" >>
    [] name = "set_user_name" -> << "set", "user", "name" >>
    [] name = "set_user_password" -> << "set", "user", "password" >>
    [] name = "set_root_password" -> << "set", "root", "password" >>
    [] name = "set_user_shell" -> << "set", "user", "shell" >>
    [] name = "set_drive" -> << "set", "drive" >>
    [] name = "set_bootloader" -> << "set", "bootloader" >>
    [] name = "set_hostname" -> << "set", "hostname" >>
    [] name = "set_timezone" -> << "set", "timezone" >>
    [] name = "set_partition_scheme" -> << "set", "partition", "scheme" >>
    [] name = "set_partition_sizes" -> << "set", "partition", "sizes" >>
    [] name = "set_swap_creation" -> << "set", "swap", "creation" >>
    [] name = "start_ntp_sync" -> << "start", "ntp", "sync" >>
    [] name = "input_form" -> << "input", "form" >>
    [] name = "password_form" -> << "password", "form" >>
    [] name = "confirm_selection" -> << "confirm", "selection" >>
    [] name = "run_reflector" -> << "run", "reflector" >>
    [] name = "run_sh_cmd" -> << "run", "sh", "cmd" >>
    [] name = "run" -> << "run" >>

\* "_".join(words): the name whose split is words.
join_underscore(words) == CHOOSE n \in Methods : split(n) = words

\* caller(parent_func): the words after the first one, and the full name.
caller(parent_func) ==
  [var |-> Tail(parent_func), func |-> join_underscore(parent_func)]

\* -------------------------------------------------------------- state ---
VARIABLES
  user_input,     \* ArchInstaller.user_input, the class-level dict
  shell,          \* ArchInstaller.shell, class attribute
  install_drive,  \* ArchInstaller.install_drive, class attribute
  timezone,       \* ArchInstaller.timezone, class attribute
  stack,          \* the call stack, running frame last
  ret,            \* value returned by the call that has just returned
  status,         \* "running", "done" or "crashed" (unhandled exception)
  exc,            \* the exception that ended the run, or None
  entry,          \* the method the driver called
  reported,       \* what run_sh_cmd last showed and the last exit status
  cancelled,      \* the operator has cancelled a dialog
  accepted,       \* per step, the candidate the operator last accepted
  tally           \* stores made and rejections given in the running step

vars == << user_input, shell, install_drive, timezone, stack, ret, status,
           exc, entry, reported, cancelled, accepted, tally >>

Fields == { "add_swap", "bootloader", "host_name", "install_drive",
            "partition_scheme", "root_password", "timezone", "user_name",
            "user_password" }

NoRet == [fn |-> None, val |-> None]
NoTally == [writes |-> 0, rejected |-> 0]

Frame(fn, pc, loc) == [fn |-> fn, pc |-> pc, loc |-> loc]

\* The frame a call of method fn starts with.
NewFrame(fn) ==
  CASE fn = "run" -> Frame(fn, "call", [i |-> 1])
    [] fn = "welcome_user" -> Frame(fn, "msgbox", [v |-> None])
    [] fn \in {"set_user_name", "set_hostname", "set_user_password"} ->
         Frame(fn, "call", [v |-> None])
    [] fn = "input_form" -> Frame(fn, "inputbox", [v |-> None])
    [] fn \in {"set_root_password", "set_timezone", "set_swap_creation",
               "run_reflector"} -> Frame(fn, "yes_no", [v |-> None])
    [] fn \in {"set_user_shell", "set_drive", "set_bootloader",
               "set_partition_scheme"} -> Frame(fn, "menu", [v |-> None])
    [] fn = "set_partition_sizes" -> Frame(fn, "get_disks", [v |-> None])
    [] fn = "start_ntp_sync" -> Frame(fn, "infobox", [v |-> None])
    [] fn = "run_sh_cmd" -> Frame(fn, "subprocess", [v |-> None])
    [] fn = "password_form" ->
         Frame(fn, "passwordform",
               [user |-> None, error |-> ErrNone, fields |-> << None, None >>])

Top == stack[Len(stack)]
Running(fn, pc) ==
  /\ status = "running"
  /\ stack # << >>
  /\ Top.fn = fn
  /\ Top.pc = pc

Below == SubSeq(stack, 1, Len(stack) - 1)
\* the stack with the running frame at pc and local v
At(pc, v) == Append(Below, Frame(Top.fn, pc, [v |-> v]))

\* The step of the sequence that is running: the frame run() called, or
\* the method the driver called.
CurStep ==
  IF stack = << >> THEN None
  ELSE IF stack[1].fn = "run"
       THEN (IF Len(stack) >= 2 THEN stack[2].fn ELSE None)
       ELSE stack[1].fn

\* Number of rejections whose re-entry has not returned yet.
Pending ==
  Cardinality({ k \in 1..Len(stack) :
                  stack[k].fn = "confirm_selection" /\ stack[k].pc = "ret" })

Init ==
  /\ user_input = [f \in Fields |-> ""]
  /\ shell = None
  /\ install_drive = None
  /\ timezone = None
  /\ entry \in Entries
  /\ stack = << NewFrame(entry) >>
  /\ ret = NoRet
  /\ status = "running"
  /\ exc = None
  /\ reported = [msgbox |-> None, returncode |-> 0]
  /\ cancelled = FALSE
  /\ accepted = [s \in Methods |-> None]
  /\ tally = NoTally

\* The running frame returns val to its caller; the driver's call ends the run.
Return(val) ==
  /\ stack' = Below
  /\ ret' = [fn |-> Top.fn, val |-> val]
  /\ status' = IF Len(stack) = 1 THEN "done" ELSE status
  /\ exc' = exc

\* An exception nobody catches unwinds every frame.
Raise(e) ==
  /\ stack' = << >>
  /\ ret' = NoRet
  /\ status' = "crashed"
  /\ exc' = e

\* A confirm_selection that takes the name of the outermost method below
\* run() instead of the name of its caller.
CallConfirmOuterName(v) ==
  LET name == IF stack[1].fn = "run" THEN stack[2].fn ELSE stack[1].fn
  IN /\ stack' = Append(At("ret", v),
                        Frame("confirm_selection", "yes_no",
                              [selection |-> v,
                               func |-> caller(split(name)).func,
                               var |-> caller(split(name)).var]))
     /\ ret' = NoRet
     /\ UNCHANGED << status, exc >>

\* The running frame, holding local v, calls confirm_selection(v): the
\* callee reads its caller's name off the stack (inspect.stack()[1][3]).
CallConfirm(v) ==
  /\ stack' = Append(At("ret", v),
                     Frame("confirm_selection", "yes_no",
                           [selection |-> v,
                            func |-> caller(split(Top.fn)).func,
                            var |-> caller(split(Top.fn)).var]))
  /\ ret' = NoRet
  /\ UNCHANGED << status, exc >>

\* The running frame calls a method, whose frame is callee, and waits for
\* it at pc "ret".
Call(callee) ==
  /\ stack' = Append(At("ret", Top.loc.v), callee)
  /\ ret' = NoRet
  /\ UNCHANGED << status, exc >>

wizard == << user_input, shell, install_drive, timezone >>

\* A call that goes on without a new dialog answer to record.
Quiet == UNCHANGED << entry, reported, cancelled, accepted, tally >>

\* A call that executes one store statement and records no dialog answer.
Wrote ==
  /\ tally' = [tally EXCEPT !.writes = @ + 1]
  /\ UNCHANGED << entry, reported, cancelled, accepted >>

\* What a menu or an input box can answer: the first element of the pair
\* the wrapper returns (kept as its truth value, the only thing the code
\* tests), the operator's cancellation, and the chosen tag or typed text.
\* How the wrapper encodes a cancellation in the first element is fixed by
\* base.BaseDialog, which the file only imports: every encoding is kept.
MenuAnswers(choices) ==
  [code : BOOLEAN, cancel : BOOLEAN, tag : choices]

\* The running frame keeps waiting at pc with local v (a loop iteration).
Stay(pc, v) ==
  /\ stack' = At(pc, v)
  /\ ret' = NoRet
  /\ UNCHANGED << status, exc >>

\* ------------------------------------------------------------ actions ---
\* run(): call the next method of the list; after the last one, return.
run ==
  /\ Running("run", "call")
  /\ IF Top.loc.i <= Len(RunSteps)
     THEN /\ stack' = Append(Append(Below, Frame("run", "call",
                                                 [i |-> Top.loc.i + 1])),
                             NewFrame(RunSteps[Top.loc.i]))
          /\ ret' = NoRet
          /\ tally' = NoTally
          /\ UNCHANGED << status, exc >>
     ELSE Return(None) /\ tally' = tally
  /\ UNCHANGED << wizard, entry, reported, cancelled, accepted >>

\* welcome_user(): one message box.
welcome_user ==
  /\ Running("welcome_user", "msgbox")
  /\ Return(None)
  /\ UNCHANGED wizard
  /\ Quiet

\* confirm_selection that, on no, returns without re-invoking the step.
confirm_selection_no_reentry ==
  \/ /\ Running("confirm_selection", "yes_no")
     /\ \E yes \in BOOLEAN :
          IF yes
          THEN /\ accepted' = [accepted EXCEPT ![CurStep] = Top.loc.selection]
               /\ tally' = tally
               /\ Return(PyTrue)
          ELSE /\ accepted' = accepted
               /\ tally' = [tally EXCEPT !.rejected = @ + 1]
               /\ Return(None)
     /\ UNCHANGED << wizard, entry, reported, cancelled >>
  \/ /\ Running("confirm_selection", "ret")
     /\ Return(None)
     /\ UNCHANGED wizard
     /\ Quiet

\* confirm_selection(selection): yes returns True; no re-invokes the method
\* named func and then falls off the end (returns None).
confirm_selection ==
  \/ /\ Running("confirm_selection", "yes_no")
     /\ \E yes \in BOOLEAN :
          IF yes
          THEN /\ accepted' = [accepted EXCEPT ![CurStep] = Top.loc.selection]
               /\ tally' = tally
               /\ Return(PyTrue)
          ELSE /\ Pending < MaxRetries
               /\ accepted' = accepted
               /\ tally' = [tally EXCEPT !.rejected = @ + 1]
               /\ stack' = Append(Append(Below, Frame("confirm_selection",
                                                      "ret", Top.loc)),
                                  NewFrame(Top.loc.func))
               /\ ret' = NoRet
               /\ UNCHANGED << status, exc >>
     /\ UNCHANGED << wizard, entry, reported, cancelled >>
  \/ /\ Running("confirm_selection", "ret")
     /\ Return(None)
     /\ UNCHANGED wizard
     /\ Quiet

\* input_form(): the typed answer goes to confirm_selection and is dropped.
input_form ==
  \/ /\ Running("input_form", "inputbox")
     /\ \E a \in MenuAnswers(Names) :
          /\ cancelled' = (cancelled \/ a.cancel)
          /\ CallConfirm(a.tag)
     /\ UNCHANGED << wizard, entry, reported, accepted, tally >>
  \/ /\ Running("input_form", "ret")
     /\ Return(None)
     /\ UNCHANGED wizard
     /\ Quiet

\* set_hostname(): input_form() and nothing else.
set_hostname ==
  \/ /\ Running("set_hostname", "call")
     /\ Call(NewFrame("input_form"))
     /\ UNCHANGED wizard
     /\ Quiet
  \/ /\ Running("set_hostname", "ret")
     /\ Return(None)
     /\ UNCHANGED wizard
     /\ Quiet

\* set_user_name(): input_form() and nothing else.
set_user_name ==
  \/ /\ Running("set_user_name", "call")
     /\ Call(NewFrame("input_form"))
     /\ UNCHANGED wizard
     /\ Quiet
  \/ /\ Running("set_user_name", "ret")
     /\ Return(None)
     /\ UNCHANGED wizard
     /\ Quiet

\* password_form testing for a mismatch before testing for an empty field.
PasswordCheckMismatchFirst(fields) ==
  IF fields[1] # fields[2] THEN ErrMismatch
  ELSE IF "" \in {fields[1], fields[2]} THEN ErrEmpty
  ELSE ErrNone

\* The test password_form makes on a submitted pair: the error it sets,
\* or ErrNone when it returns the secret.
PasswordCheck(fields) ==
  IF "" \in {fields[1], fields[2]} THEN ErrEmpty
  ELSE IF fields[1] # fields[2] THEN ErrMismatch
  ELSE ErrNone

PasswordFrame(user) ==
  Frame("password_form", "passwordform",
        [user |-> user, error |-> ErrNone, fields |-> << None, None >>])

\* password_form(user, error): show the form (with the error of the last
\* round), test the pair, loop or return the first field.
password_form ==
  \/ /\ Running("password_form", "passwordform")
     /\ \E cancel \in BOOLEAN, fields \in Secrets \X Secrets :
          /\ cancelled' = (cancelled \/ cancel)
          /\ LET error == PasswordCheck(fields)
             IN stack' = Append(Below,
                   Frame("password_form",
                         IF error = ErrNone THEN "return" ELSE "passwordform",
                         [user |-> Top.loc.user,
                          error |-> IF error = ErrNone THEN Top.loc.error
                                                       ELSE error,
                          fields |-> fields]))
     /\ ret' = NoRet
     /\ UNCHANGED << wizard, status, exc, entry, reported, accepted, tally >>
  \/ /\ Running("password_form", "return")
     /\ Return(Top.loc.fields[1])
     /\ UNCHANGED wizard
     /\ Quiet

\* set_user_password(): the form for the stored user_name, result stored.
set_user_password ==
  \/ /\ Running("set_user_password", "call")
     /\ Call(PasswordFrame(user_input["user_name"]))
     /\ UNCHANGED wizard
     /\ Quiet
  \/ /\ Running("set_user_password", "ret")
     /\ user_input' = [user_input EXCEPT !["user_password"] = ret.val]
     /\ Return(None)
     /\ UNCHANGED << shell, install_drive, timezone >>
     /\ Wrote

\* set_root_password storing the form's secret under the user's key.
set_root_password_wrong_key ==
  \/ /\ Running("set_root_password", "yes_no")
     /\ \E yes \in BOOLEAN :
          IF yes
          THEN /\ user_input' = [user_input EXCEPT
                    !["root_password"] = user_input["user_password"]]
               /\ tally' = [tally EXCEPT !.writes = @ + 1]
               /\ stack' = Append(At("ret", PyTrue), PasswordFrame("root"))
          ELSE /\ user_input' = user_input
               /\ tally' = tally
               /\ stack' = Append(At("ret", PyFalse), PasswordFrame("root"))
     /\ ret' = NoRet
     /\ UNCHANGED << shell, install_drive, timezone, status, exc, entry,
                     reported, cancelled, accepted >>
  \/ /\ Running("set_root_password", "ret")
     /\ user_input' = [user_input EXCEPT !["user_password"] = ret.val]
     /\ Return(None)
     /\ UNCHANGED << shell, install_drive, timezone >>
     /\ Wrote

\* set_root_password(): on yes copy user_password; then, in either case,
\* the form for root, result stored.  The frame keeps the branch taken.
set_root_password ==
  \/ /\ Running("set_root_password", "yes_no")
     /\ \E yes \in BOOLEAN :
          IF yes
          THEN /\ user_input' = [user_input EXCEPT
                    !["root_password"] = user_input["user_password"]]
               /\ tally' = [tally EXCEPT !.writes = @ + 1]
               /\ stack' = Append(At("ret", PyTrue), PasswordFrame("root"))
          ELSE /\ user_input' = user_input
               /\ tally' = tally
               /\ stack' = Append(At("ret", PyFalse), PasswordFrame("root"))
     /\ ret' = NoRet
     /\ UNCHANGED << shell, install_drive, timezone, status, exc, entry,
                     reported, cancelled, accepted >>
  \/ /\ Running("set_root_password", "ret")
     /\ user_input' = [user_input EXCEPT !["root_password"] = ret.val]
     /\ Return(None)
     /\ UNCHANGED << shell, install_drive, timezone >>
     /\ Wrote

\* set_user_shell(): menu until the code is true, confirm, store.
set_user_shell ==
  \/ /\ Running("set_user_shell", "menu")
     /\ \E a \in MenuAnswers(Shells) :
          /\ cancelled' = (cancelled \/ a.cancel)
          /\ IF a.code THEN CallConfirm(a.tag) ELSE Stay("menu", a.tag)
     /\ UNCHANGED << wizard, entry, reported, accepted, tally >>
  \/ /\ Running("set_user_shell", "ret")
     /\ shell' = Top.loc.v
     /\ Return(None)
     /\ UNCHANGED << user_input, install_drive, timezone >>
     /\ Wrote

\* set_drive(): menu of the disks until the code is true, confirm, store.
set_drive ==
  \/ /\ Running("set_drive", "menu")
     /\ \E a \in MenuAnswers(DiskNames) :
          /\ cancelled' = (cancelled \/ a.cancel)
          /\ IF a.code THEN CallConfirm(a.tag) ELSE Stay("menu", a.tag)
     /\ UNCHANGED << wizard, entry, reported, accepted, tally >>
  \/ /\ Running("set_drive", "ret")
     /\ install_drive' = Top.loc.v
     /\ Return(None)
     /\ UNCHANGED << user_input, shell, timezone >>
     /\ Wrote

\* set_bootloader(): one menu, whose result is not used.
set_bootloader ==
  /\ Running("set_bootloader", "menu")
  /\ \E a \in MenuAnswers(Bootloaders) :
       cancelled' = (cancelled \/ a.cancel)
  /\ Return(None)
  /\ UNCHANGED << wizard, entry, reported, accepted, tally >>

\* set_timezone(): offer the local zone; on no, the menu; confirm, store.
set_timezone ==
  \/ /\ Running("set_timezone", "yes_no")
     /\ \E yes \in BOOLEAN :
          IF yes THEN CallConfirm(LocalZone) ELSE Stay("menu", LocalZone)
     /\ UNCHANGED wizard
     /\ Quiet
  \/ /\ Running("set_timezone", "menu")
     /\ \E a \in MenuAnswers(CommonTimezones) :
          /\ cancelled' = (cancelled \/ a.cancel)
          /\ IF a.code THEN CallConfirm(a.tag) ELSE Stay("yes_no", a.tag)
     /\ UNCHANGED << wizard, entry, reported, accepted, tally >>
  \/ /\ Running("set_timezone", "ret")
     /\ timezone' = Top.loc.v
     /\ Return(None)
     /\ UNCHANGED << user_input, shell, install_drive >>
     /\ Wrote

\* set_partition_scheme(): menu until the code is true, confirm, store.
set_partition_scheme ==
  \/ /\ Running("set_partition_scheme", "menu")
     /\ \E a \in MenuAnswers(Schemes) :
          /\ cancelled' = (cancelled \/ a.cancel)
          /\ IF a.code THEN CallConfirm(a.tag) ELSE Stay("menu", a.tag)
     /\ UNCHANGED << wizard, entry, reported, accepted, tally >>
  \/ /\ Running("set_partition_scheme", "ret")
     /\ user_input' = [user_input EXCEPT !["partition_scheme"] = Top.loc.v]
     /\ Return(None)
     /\ UNCHANGED << shell, install_drive, timezone >>
     /\ Wrote

\* A set_swap_creation that asks again until confirm_selection returns True.
set_swap_creation_until_true ==
  \/ /\ Running("set_swap_creation", "yes_no")
     /\ \E add_swap \in {PyTrue, PyFalse} : CallConfirm(add_swap)
     /\ UNCHANGED wizard
     /\ Quiet
  \/ /\ Running("set_swap_creation", "ret")
     /\ ret.val # PyTrue
     /\ Stay("yes_no", None)
     /\ UNCHANGED wizard
     /\ Quiet
  \/ /\ Running("set_swap_creation", "ret")
     /\ ret.val = PyTrue
     /\ user_input' = [user_input EXCEPT !["add_swap"] = Top.loc.v]
     /\ Return(None)
     /\ UNCHANGED << shell, install_drive, timezone >>
     /\ Wrote

\* set_swap_creation(): one yes/no, confirm, store.
set_swap_creation ==
  \/ /\ Running("set_swap_creation", "yes_no")
     /\ \E add_swap \in {PyTrue, PyFalse} : CallConfirm(add_swap)
     /\ UNCHANGED wizard
     /\ Quiet
  \/ /\ Running("set_swap_creation", "ret")
     /\ user_input' = [user_input EXCEPT !["add_swap"] = Top.loc.v]
     /\ Return(None)
     /\ UNCHANGED << shell, install_drive, timezone >>
     /\ Wrote

MountPoints == { "/boot", "/", "/swap", "/home" }

\* The byte count set_partition_sizes renders for /home.
home_bytes(disk_size, boot, root, swap) ==
  disk_size.raw - boot.raw + root.raw + swap.raw

\* set_partition_sizes(): look the disk up by the install_drive entry of
\* user_input, derive the /home default, then show the input menu for ever.
set_partition_sizes ==
  \/ /\ Running("set_partition_sizes", "get_disks")
     /\ \E found \in get_disks(user_input["install_drive"]) :
          IF found = {}
          THEN Raise("IndexError")
          ELSE \E disk \in found :
                 LET disk_size == StorageInput(disk.size)
                     boot == StorageInput(SizeText(250, 0, "mb"))
                     root == StorageInput(SizeText(30, 0, "gb"))
                     swap == StorageInput(SizeText(10, 0, "gb"))
                     home_size == StorageInput(format_size(
                                    home_bytes(disk_size, boot, root, swap)))
                 IN /\ stack' = Append(Below,
                          Frame("set_partition_sizes", "inputmenu",
                                [disk |-> disk.name, disk_size |-> disk_size,
                                 boot |-> boot, root |-> root, swap |-> swap,
                                 home_size |-> home_size,
                                 partitions |-> None]))
                    /\ ret' = NoRet
                    /\ UNCHANGED << status, exc >>
     /\ UNCHANGED wizard
     /\ Quiet
  \/ /\ Running("set_partition_sizes", "inputmenu")
     /\ \E cancel \in BOOLEAN, tag \in MountPoints :
          /\ cancelled' = (cancelled \/ cancel)
          /\ stack' = Append(Below, [Top EXCEPT !.loc.partitions = tag])
     /\ ret' = NoRet
     /\ UNCHANGED << wizard, status, exc, entry, reported, accepted, tally >>

ExitCodes == { 0, 1 }
check == TRUE          \* the check argument of subprocess.run

\* subprocess.run(..., check=check) raises CalledProcessError on a
\* non-zero exit when check is set.
CalledProcessError(returncode) == check /\ returncode # 0

\* run_sh_cmd(sh_cmd, name): run the command, then report by message box.
run_sh_cmd ==
  /\ Running("run_sh_cmd", "subprocess")
  /\ \E returncode \in ExitCodes :
       IF CalledProcessError(returncode)
       THEN /\ Raise("CalledProcessError")
            /\ reported' = [reported EXCEPT !.returncode = returncode]
       ELSE IF returncode = 0
       THEN /\ reported' = [msgbox |-> "finished successfully",
                            returncode |-> returncode]
            /\ Return(PyTrue)
       ELSE /\ reported' = [msgbox |-> "failed to run",
                            returncode |-> returncode]
            /\ Return(None)
  /\ UNCHANGED << wizard, entry, cancelled, accepted, tally >>

\* start_ntp_sync(): info box, then run_sh_cmd with the timedatectl command.
start_ntp_sync ==
  \/ /\ Running("start_ntp_sync", "infobox")
     /\ Call(NewFrame("run_sh_cmd"))
     /\ UNCHANGED wizard
     /\ Quiet
  \/ /\ Running("start_ntp_sync", "ret")
     /\ Return(None)
     /\ UNCHANGED wizard
     /\ Quiet

\* run_reflector(): while the operator says yes, run reflector; on no return.
run_reflector ==
  \/ /\ Running("run_reflector", "yes_no")
     /\ \E yes \in BOOLEAN :
          IF yes THEN Call(NewFrame("run_sh_cmd")) ELSE Return(None)
     /\ UNCHANGED wizard
     /\ Quiet
  \/ /\ Running("run_reflector", "ret")
     /\ Stay("yes_no", None)
     /\ UNCHANGED wizard
     /\ Quiet

Next ==
  \/ run
  \/ welcome_user
  \/ confirm_selection
  \/ input_form
  \/ set_hostname
  \/ set_user_name
  \/ password_form
  \/ set_user_password
  \/ set_root_password
  \/ set_user_shell
  \/ set_drive
  \/ set_bootloader
  \/ set_timezone
  \/ set_partition_scheme
  \/ set_swap_creation
  \/ set_partition_sizes
  \/ run_sh_cmd
  \/ start_ntp_sync
  \/ run_reflector

Spec == Init /\ [][Next]_vars

\* The program keeps running and the operator keeps answering.
FairSpec == Spec /\ WF_vars(Next)

\* ------------------------------------- several calls in one process ---
\* After a call has returned, the driver builds another instance and calls
\* a method on it: __init__ leaves the class-level user_input and the class
\* attributes as the earlier call left them.  (An uncaught exception ends
\* the process.)  What is recorded about the operator starts afresh.
driver_call ==
  /\ status = "done"
  /\ entry' \in Entries
  /\ stack' = << NewFrame(entry') >>
  /\ ret' = NoRet
  /\ status' = "running"
  /\ exc' = None
  /\ reported' = [msgbox |-> None, returncode |-> 0]
  /\ cancelled' = FALSE
  /\ accepted' = [s \in Methods |-> None]
  /\ tally' = NoTally
  /\ UNCHANGED wizard

ProcNext == Next \/ driver_call

ProcSpec == Init /\ [][ProcNext]_vars

\* ------------------------------------------- one step, called directly ---
\* The steps that call confirm_selection, directly or through input_form.
ConfirmSteps == { "set_user_shell", "set_drive", "set_timezone",
                  "set_partition_scheme", "set_swap_creation",
                  "set_user_name", "set_hostname" }

\* A driver calls one confirming step on a fresh instance.
StepInit ==
  /\ user_input = [f \in Fields |-> ""]
  /\ shell = None
  /\ install_drive = None
  /\ timezone = None
  /\ entry \in ConfirmSteps
  /\ stack = << NewFrame(entry) >>
  /\ ret = NoRet
  /\ status = "running"
  /\ exc = None
  /\ reported = [msgbox |-> None, returncode |-> 0]
  /\ cancelled = FALSE
  /\ accepted = [s \in Methods |-> None]
  /\ tally = NoTally

\* The methods a confirming step executes.
StepNext ==
  \/ confirm_selection
  \/ input_form
  \/ set_hostname
  \/ set_user_name
  \/ set_user_shell
  \/ set_drive
  \/ set_timezone
  \/ set_partition_scheme
  \/ set_swap_creation

\* The operator accepts a candidate.
Accepts == confirm_selection /\ ret'.val = PyTrue

\* The operator's answer makes a step put a candidate up for confirmation.
Chooses ==
  /\ set_user_shell \/ set_drive \/ set_timezone \/ set_partition_scheme
  /\ stack' # << >>
  /\ stack'[Len(stack')].fn = "confirm_selection"

\* One confirming step with an operator who keeps answering and who, asked
\* again and again, eventually picks a candidate and eventually accepts one.
StepSpec ==
  /\ StepInit
  /\ [][StepNext]_vars
  /\ WF_vars(StepNext)
  /\ SF_vars(Accepts)
  /\ SF_vars(Chooses)

\* ------------------------------------------------------------- claims ---
\* The steps whose candidate goes through confirm_selection and is stored.
GatedSteps == { "set_user_shell", "set_drive", "set_timezone",
                "set_partition_scheme", "set_swap_creation" }


\* What a gated step has stored.
Stored(step) ==
  CASE step = "set_user_shell" -> shell
    [] step = "set_drive" -> install_drive
    [] step = "set_timezone" -> timezone
    [] step = "set_partition_scheme" -> user_input["partition_scheme"]
    [] step = "set_swap_creation" -> user_input["add_swap"]

InRun(step) == \E i \in 1..Len(RunSteps) : RunSteps[i] = step
StepIndex(step) == CHOOSE i \in 1..Len(RunSteps) : RunSteps[i] = step

\* run() is between two steps.
AtBoundary == entry = "run" /\ Running("run", "call")

\* The step has returned to the sequencer (or to the driver that called it).
Done(step) ==
  \/ entry = step /\ status = "done"
  \/ /\ entry = "run"
     /\ InRun(step)
     /\ stack # << >>
     /\ \/ StepIndex(step) < stack[1].loc.i - 1
        \/ StepIndex(step) = stack[1].loc.i - 1 /\ Len(stack) = 1

\* C1: when a confirm-gated step has returned, the value it has stored is
\* the candidate the operator accepted.
C1_Claim ==
  \A step \in GatedSteps : Done(step) => Stored(step) = accepted[step]

\* C2: once the operator has cancelled a menu, an input box or a password
\* form, the sequence has halted: nothing is running any more.
C2_Claim == cancelled => status # "running"

\* C3: under an operator who does not cancel, once run() has started the
\* partition-sizing step it goes on to execute the time-sync step.
C3_Claim ==
  (entry = "run" /\ CurStep = "set_partition_sizes" /\ ~cancelled)
     ~> (cancelled \/ CurStep = "start_ntp_sync")

\* C4: after a command has exited with a non-zero status, run_sh_cmd has
\* shown the failure message box and the wizard has not died of an
\* unhandled exception.
C4_Claim ==
  reported.returncode # 0 =>
     reported.msgbox = "failed to run" /\ status # "crashed"

\* The field of user_input a step of run() owns.
Owned == [ set_user_name |-> "user_name",
           set_user_password |-> "user_password",
           set_root_password |-> "root_password",
           set_user_shell |-> "shell",
           set_drive |-> "install_drive",
           set_bootloader |-> "bootloader",
           set_hostname |-> "host_name",
           set_timezone |-> "timezone",
           set_partition_scheme |-> "partition_scheme" ]

Present(field) == field \in DOMAIN user_input /\ user_input[field] # ""

\* C5: at every step boundary of run(), the field of each completed step is
\* present and non-empty in user_input and the field of each step still to
\* run is not set.
C5_Claim ==
  AtBoundary =>
     \A step \in DOMAIN Owned :
        Present(Owned[step]) <=> StepIndex(step) < Top.loc.i

PwFrame == Running("password_form", "passwordform")
           \/ Running("password_form", "return")
Submitted == PwFrame /\ Top.loc.fields # << None, None >>
HasEmpty(fields) == fields[1] = "" \/ fields[2] = ""

\* C6: password_form shows the empty-field error exactly for a pair with an
\* empty field (equal or not), the mismatch error exactly for a pair of
\* different non-empty fields, goes on to return only for a pair of equal
\* non-empty fields, and returns that common value.
C6_Theorem ==
  /\ [](Submitted =>
          /\ HasEmpty(Top.loc.fields) =>
               Top.pc = "passwordform" /\ Top.loc.error = ErrEmpty
          /\ ~HasEmpty(Top.loc.fields)
               /\ Top.loc.fields[1] # Top.loc.fields[2] =>
               Top.pc = "passwordform" /\ Top.loc.error = ErrMismatch
          /\ ~HasEmpty(Top.loc.fields)
               /\ Top.loc.fields[1] = Top.loc.fields[2] =>
               Top.pc = "return")
  /\ [][Running("password_form", "return") =>
          /\ ret'.fn = "password_form"
          /\ ret'.val = Top.loc.fields[1]
          /\ ret'.val = Top.loc.fields[2]
          /\ ret'.val # ""]_vars

\* A pair with one empty field and two different fields has been answered
\* with the empty-field error.
C6_Witness ==
  /\ Running("password_form", "passwordform")
  /\ Top.loc.fields = << "abc", "" >>
  /\ Top.loc.error = ErrEmpty

\* The sizing step is showing its input menu.
Sizing == Running("set_partition_sizes", "inputmenu")
Reserved == Top.loc.boot.raw + Top.loc.root.raw + Top.loc.swap.raw

\* C7: the /home default the sizing step offers is, in raw count,
\* disk size - (boot + root + swap).
C7_Claim == Sizing => Top.loc.home_size.raw = Top.loc.disk_size.raw - Reserved

\* C8: the sizing step never offers a layout whose remainder
\* disk size - (boot + root + swap) is zero or negative.
C8_Claim == Sizing => Top.loc.disk_size.raw - Reserved > 0

\* C9: the user-password form is opened for the accepted user name, and the
\* sizing step works on the disk accepted in the drive step.
C9_Claim ==
  /\ (PwFrame /\ CurStep = "set_user_password") =>
        Top.loc.user = accepted["set_user_name"]
  /\ Sizing => Top.loc.disk = accepted["set_drive"]

\* C10: while a step that confirms its candidate is running and the
\* operator has not accepted any candidate of it yet, no step of the program
\* changes WizardState.
C10_Theorem ==
  [][(CurStep \in ConfirmSteps /\ accepted[CurStep] = None)
        => wizard' = wizard]_vars

\* A candidate of the partition-scheme step was rejected, none has been
\* accepted, and the next candidate is up for confirmation.
C10_Witness ==
  /\ CurStep = "set_partition_scheme"
  /\ Pending >= 1
  /\ accepted[CurStep] = None
  /\ Running("confirm_selection", "yes_no")

\* The steps that store a value.
StoringSteps == GatedSteps \cup { "set_user_password", "set_root_password" }

\* The step has just returned: the tally is still the one of that step.
JustReturned(step) ==
  \/ entry = step /\ status = "done"
  \/ /\ AtBoundary
     /\ InRun(step)
     /\ StepIndex(step) = Top.loc.i - 1

\* C11: a storing step that has returned has executed exactly one store,
\* whatever number of candidates was rejected and whatever the answer to
\* the reuse question was.
C11_Claim ==
  \A step \in StoringSteps : JustReturned(step) => tally.writes = 1

\* The order of the steps: credentials, shell, drive, bootloader, hostname,
\* timezone, partitioning, time sync.
ClaimedOrder ==
  << "welcome_user", "set_user_name", "set_user_password",
     "set_root_password", "set_user_shell", "set_drive", "set_bootloader",
     "set_hostname", "set_timezone", "set_partition_scheme",
     "set_partition_sizes", "start_ntp_sync" >>

\* C12: run() starts with no step started; the k-th step it starts is the
\* k-th of the order above; it starts a step only when the previous one has
\* returned, and each start advances the sequence by exactly one step.
C12_Theorem ==
  /\ (entry = "run" => Len(stack) = 1 /\ stack[1].loc.i = 1)
  /\ []((entry = "run" /\ stack # << >>) =>
          /\ stack[1].fn = "run"
          /\ Len(stack) >= 2 =>
               stack[2].fn = ClaimedOrder[stack[1].loc.i - 1])
  /\ [][(entry = "run" /\ stack # << >> /\ stack' # << >>) =>
          \/ /\ stack'[1].loc.i = stack[1].loc.i
             /\ Len(stack) = 1 => Len(stack') = 1
          \/ /\ stack'[1].loc.i = stack[1].loc.i + 1
             /\ Len(stack) = 1
             /\ Len(stack') = 2]_vars

\* run() has started the partition-sizing step as its eleventh step.
C12_Witness ==
  /\ entry = "run"
  /\ Len(stack) >= 2
  /\ stack[1].loc.i = 12
  /\ stack[2].fn = "set_partition_sizes"

\* The method that produces the candidate of a confirming step.
Producer(step) ==
  IF step \in { "set_user_name", "set_hostname" } THEN "input_form" ELSE step

\* confirm_selection starts a new call of the producer of the running step.
ReEntered ==
  /\ stack # << >>
  /\ Top.fn = "confirm_selection"
  /\ CurStep \in ConfirmSteps
  /\ stack' = Append(Append(Below, Frame("confirm_selection", "ret", Top.loc)),
                     NewFrame(Producer(CurStep)))

\* C13: every rejection is followed by exactly one re-entry of the step and
\* there is no re-entry without a rejection, so a step accepted after k
\* rejections has been re-entered k times; and, with an operator who
\* eventually accepts, every confirming step returns to its caller.
C13_Theorem ==
  /\ [][(tally'.rejected = tally.rejected + 1) <=> ReEntered]_vars
  /\ \A step \in ConfirmSteps :
       (entry = step) ~> (status = "done" /\ stack = << >>)

\* The shell step has returned after two rejections.
C13_Witness ==
  /\ JustReturned("set_user_shell")
  /\ tally.rejected = 2

\* The step that owns each entry of user_input.
FieldOwner == [ add_swap |-> "set_swap_creation",
                bootloader |-> "set_bootloader",
                host_name |-> "set_hostname",
                install_drive |-> "set_drive",
                partition_scheme |-> "set_partition_scheme",
                root_password |-> "set_root_password",
                timezone |-> "set_timezone",
                user_name |-> "set_user_name",
                user_password |-> "set_user_password" ]

\* C14: a value of WizardState changes only while the step that owns it is
\* running; in particular user_password changes only in set_user_password.
C14_Theorem ==
  [][/\ \A f \in Fields :
          user_input'[f] # user_input[f] => CurStep = FieldOwner[f]
     /\ shell' # shell => CurStep = "set_user_shell"
     /\ install_drive' # install_drive => CurStep = "set_drive"
     /\ timezone' # timezone => CurStep = "set_timezone"]_vars

\* set_root_password has copied the user's password and is showing the form
\* for root.
C14_Witness ==
  /\ CurStep = "set_root_password"
  /\ Running("password_form", "passwordform")
  /\ user_input["user_password"] # ""
  /\ user_input["root_password"] = user_input["user_password"]

\* A call made by the driver is about to execute its first statement.
AtStart == status = "running" /\ stack = << NewFrame(entry) >>

\* C15: at the start of every call the driver makes, wizard run or single
\* step, every field of WizardState is empty: nothing an earlier instance or
\* run stored is visible.
C15_Claim ==
  AtStart =>
     /\ \A f \in Fields : user_input[f] = ""
     /\ shell = None
     /\ install_drive = None
     /\ timezone = None

\* C16: when set_root_password returns after the operator accepted the
\* offer to reuse the user password, root_password equals user_password;
\* after the operator declined, root_password is the secret the root
\* password form returned.
C16_Claim ==
  [][Running("set_root_password", "ret") =>
       IF Top.loc.v = PyTrue
       THEN user_input'["root_password"] = user_input'["user_password"]
       ELSE user_input'["root_password"] = ret.val]_vars

\* Rendering n and parsing the rendering gives n back.
RoundTrip(n) == parse_size(format_size(n)) = n

\* C17: round trip of the quantity model: the byte count of every parsed
\* size survives rendering and parsing again, and the quantity built for
\* the derived remainder from the rendering of n bytes has raw = n.
C17_Claim ==
  Sizing =>
     /\ \A q \in { Top.loc.disk_size, Top.loc.boot, Top.loc.root,
                   Top.loc.swap } : RoundTrip(q.raw)
     /\ Top.loc.home_size.raw = home_bytes(Top.loc.disk_size, Top.loc.boot,
                                           Top.loc.root, Top.loc.swap)

\* C18: when the operator rejects a candidate, confirm_selection starts one
\* new call, of the method that called it with that candidate (the frame
\* just below), on top of the frames already there, for every caller.
C18_Theorem ==
  [][(/\ stack # << >>
      /\ Top.fn = "confirm_selection"
      /\ Top.pc = "yes_no"
      /\ Len(stack') >= Len(stack))
     => /\ Len(stack) >= 2
        /\ Len(stack') = Len(stack) + 1
        /\ SubSeq(stack', 1, Len(stack) - 1) = Below
        /\ stack'[Len(stack)].fn = "confirm_selection"
        /\ stack'[Len(stack')] = NewFrame(stack[Len(stack) - 1].fn)]_vars

\* The name typed for the host name was rejected and input_form runs again.
C18_Witness ==
  /\ CurStep = "set_hostname"
  /\ \E k \in 2..(Len(stack) - 1) :
       /\ stack[k].fn = "confirm_selection"
       /\ stack[k].pc = "ret"
       /\ stack[k - 1].fn = "input_form"
       /\ stack[k + 1].fn = "input_form"

\* C19: once the operator has accepted a candidate for a confirming step,
\* every further move of that step is a return of its topmost frame: no
\* prompt of the step is shown again, pending re-entries return unasked.
C19_Theorem ==
  [][(/\ stack # << >>
      /\ CurStep \in ConfirmSteps
      /\ accepted[CurStep] # None)
     => /\ Top.pc = "ret"
        /\ stack' = Below]_vars

\* A candidate was accepted while an earlier rejection is still pending.
C19_Witness ==
  /\ stack # << >>
  /\ CurStep \in ConfirmSteps
  /\ accepted[CurStep] # None
  /\ Pending >= 1

====
